---- MODULE Spec2Model ----
(***************************************************************************)
(* A model of the PDF portfolio generator (src/lib/PortfolioGenerator.js). *)
(*                                                                         *)
(* generate() is a sequential pipeline: loadConfig, loadProjects (one      *)
(* directory after the other), createPDF (cover page, every project's      *)
(* pages, doc.end()).  The document writer is modelled by the log of the   *)
(* calls it receives; every call is tagged with the page it lands on and   *)
(* with the project that issued it.                                        *)
(*                                                                         *)
(* Abstractions: JavaScript numbers are modelled as exact rationals        *)
(* <<numerator, denominator>>; the heights of rendered text blocks (font   *)
(* metrics of the writer) are an input to the run; the writer's automatic  *)
(* page overflow of long text is not modelled.  The input directory can be *)
(* listed (fs.readdir succeeds).                                           *)
(***************************************************************************)
EXTENDS Integers, Sequences, FiniteSets, TLC

VARIABLES
    cfgFile,     \* config.json on disk: [ok |-> FALSE] or [ok |-> TRUE, data |-> record]
    dirs,        \* the project directories of inputDir, in readdir order
    pageDim,     \* <<doc.page.width, doc.page.height>> the writer gives for the configured size
    textH,       \* the writer's font metrics: rendered height of each kind of text block
    config,      \* this.config
    projects,    \* this.projects
    log,         \* the calls issued to the document writer, in order
    pageNo,      \* index of the writer's current page (0: no document yet)
    doc,         \* the PDFDocument: [state |-> "none" | "open" | "ended", ...options]
    pc,          \* position in generate(); "done": its promise resolved; "threw":
                 \* an exception left it; "sinkFailed": the output stream failed
    pi           \* createPDF: index of the project rendered next

vars == <<cfgFile, dirs, pageDim, textH, config, projects, log, pageNo, doc, pc, pi>>

(***************************************************************************)
(* Bounds of the model.                                                    *)
(***************************************************************************)
MaxProjects == 2
MaxImages == 5
MaxTokens == 3
MaxRefs == 3

(***************************************************************************)
(* Exact rational arithmetic standing for JavaScript's numbers.            *)
(***************************************************************************)
RECURSIVE GCD(_, _)
GCD(a, b) == IF b = 0 THEN a ELSE GCD(b, a % b)

Abs(n) == IF n < 0 THEN -n ELSE n

Q(n, d) ==
    LET s == IF d < 0 THEN -1 ELSE 1
        g == GCD(Abs(n), Abs(d))
    IN  <<(s * n) \div g, (s * d) \div g>>

QInt(n) == <<n, 1>>
QAdd(a, b) == Q(a[1] * b[2] + b[1] * a[2], a[2] * b[2])
QSub(a, b) == Q(a[1] * b[2] - b[1] * a[2], a[2] * b[2])
QMul(a, b) == Q(a[1] * b[1], a[2] * b[2])
QDiv(a, b) == Q(a[1] * b[2], a[2] * b[1])
QLt(a, b) == a[1] * b[2] < b[1] * a[2]
QLe(a, b) == a[1] * b[2] <= b[1] * a[2]
QMin(a, b) == IF QLt(b, a) THEN b ELSE a
QPos(a) == a[1] > 0

\* Math.round: the nearest integer, a half rounded up
Round(a) == (2 * a[1] + a[2]) \div (2 * a[2])

\* Math.ceil(Math.sqrt(n)) and Math.ceil(n / c) on non-negative integers
CeilSqrt(n) == CHOOSE c \in 0..n : c * c >= n /\ (c = 0 \/ (c - 1) * (c - 1) < n)
CeilDiv(n, c) == (n + c - 1) \div c

(***************************************************************************)
(* Layout tokens and file names: a string is modelled by its stem and its  *)
(* suffix, so that the suffix tests of the code are computed, not assumed. *)
(***************************************************************************)
Kw(s) == [stem |-> s, ext |-> ""]
File(s, e) == [stem |-> s, ext |-> e]

\* String.prototype.toLowerCase on the suffixes in use (the /i flag)
LowerExt(e) ==
    CASE e = ".JPG" -> ".jpg"
      [] e = ".PNG" -> ".png"
      [] e = ".JPEG" -> ".jpeg"
      [] OTHER -> e

\* item.match(/\.(jpg|jpeg|png)$/i)
MatchesImageRegex(tok) == LowerExt(tok.ext) \in {".jpg", ".jpeg", ".png"}

\* item.endsWith('.jpg') || item.endsWith('.png') || item.endsWith('.jpeg')
EndsWithImageSuffix(tok) == tok.ext \in {".jpg", ".png", ".jpeg"}

(***************************************************************************)
(* The image files of a project directory (the same in every directory):   *)
(* what fs.access and sharp(...).metadata() answer for each name.          *)
(***************************************************************************)
ImgA == File("a", ".jpg")
ImgB == File("b", ".png")
ImgC == File("c", ".jpeg")
ImgD == File("d", ".JPG")
ImgE == File("e", ".jpg")
ImgGone == File("gone", ".jpg")
ImgBad == File("bad", ".png")

OkFiles == {ImgA, ImgB, ImgC, ImgD, ImgE}

FileAccessible(tok) == tok \in OkFiles \cup {ImgBad}
ProbeSucceeds(tok) == tok \in OkFiles
\* the pixel data of c.jpeg is damaged: its header is read, decoding fails
DecodeSucceeds(tok) == tok \in OkFiles \ {ImgC}

\* metadata.width, metadata.height in pixels
Metadata(tok) ==
    CASE tok = ImgA -> [width |-> 400, height |-> 200]
      [] tok = ImgB -> [width |-> 200, height |-> 400]
      [] tok = ImgC -> [width |-> 300, height |-> 300]
      [] tok = ImgD -> [width |-> 300, height |-> 200]
      [] tok = ImgE -> [width |-> 1600, height |-> 900]

(***************************************************************************)
(* addImageToPage: the placement rectangle.                                *)
(***************************************************************************)
Rect(x, y, w, h) == [x |-> x, y |-> y, w |-> w, h |-> h]

\* variant: the width-constrained scale alone, without the test against maxHeight
FitRectNoClamp(image, x, y, maxWidth, maxHeight) ==
    LET aspectRatio == Q(image.width, image.height)
        width == maxWidth
        height == QDiv(maxWidth, aspectRatio)
    IN  Rect(QAdd(x, QDiv(QSub(maxWidth, width), QInt(2))),
             QAdd(y, QDiv(QSub(maxHeight, height), QInt(2))),
             width, height)

\* width-constrained scale; height-constrained if that is too high; centered
FitRect(image, x, y, maxWidth, maxHeight) ==
    LET aspectRatio == Q(image.width, image.height)
        tall == QLt(maxHeight, QDiv(maxWidth, aspectRatio))
        width == IF tall THEN QMul(maxHeight, aspectRatio) ELSE maxWidth
        height == IF tall THEN maxHeight ELSE QDiv(maxWidth, aspectRatio)
        centerX == QAdd(x, QDiv(QSub(maxWidth, width), QInt(2)))
        centerY == QAdd(y, QDiv(QSub(maxHeight, height), QInt(2)))
    IN  Rect(centerX, centerY, width, height)

(***************************************************************************)
(* The configuration: a record that holds only the fields config.json      *)
(* gives.  `a || b` on numbers takes b when a is absent or 0.              *)
(***************************************************************************)
Has(r, f) == f \in DOMAIN r

\* variant: the catch block leaves this.config as the constructor set it, {}
ConstructorConfig == <<>>
\* loadConfig's catch block
DefaultConfig ==
    [title |-> "Portfolio", subtitle |-> "Creative Work", author |-> "Artist",
     email |-> "", website |-> "", output |-> "portfolio.pdf", pageSize |-> "A4",
     margin |-> 50]

\* this.config.margin || 30
Margin == IF Has(config, "margin") /\ config.margin # 0 THEN config.margin ELSE 30

\* this.config.dpi || 300
Dpi == IF Has(config, "dpi") /\ config.dpi # 0 THEN config.dpi ELSE 300

\* borderConfig && borderConfig.enabled
GlobalBorderEnabled == Has(config, "imageBorder") /\ config.imageBorder.enabled

\* borderConfig?.width || 0.5
BorderWidth ==
    IF Has(config, "imageBorder") /\ Has(config.imageBorder, "width")
       /\ config.imageBorder.width # 0
    THEN QInt(config.imageBorder.width)
    ELSE Q(1, 2)

\* a string field that is present and not empty
Truthy(r, f) == Has(r, f) /\ r[f] # ""

PageWidth == pageDim[1]
PageHeight == pageDim[2]

(***************************************************************************)
(* processProjectImages:  image references are                             *)
(*   [form |-> "string", name |-> tok]  or                                 *)
(*   [form |-> "object", name |-> tok, file |-> tok, border |-> b]         *)
(* where an absent name or file is NoName and b is "true", "false" or      *)
(* "absent".                                                               *)
(***************************************************************************)
NoName == File("", "")

\* imageItem.name || imageItem.file, or the bare string
RefName(ref) ==
    IF ref.form = "string" THEN ref.name
    ELSE IF ref.name # NoName THEN ref.name ELSE ref.file

\* imageConfig.border || false
RefBorder(ref) == ref.form = "object" /\ ref.border = "true"

ImageRecord(ref) ==
    [name |-> RefName(ref),
     width |-> Metadata(RefName(ref)).width,
     height |-> Metadata(RefName(ref)).height,
     border |-> RefBorder(ref)]

RefResolves(ref) == FileAccessible(RefName(ref)) /\ ProbeSucceeds(RefName(ref))

\* path.join(project.path, imageName) throws a TypeError, outside the inner
\* try, when imageName is undefined: an object with neither name nor file
RefThrows(ref) == ref.form = "object" /\ ref.name = NoName /\ ref.file = NoName

\* variant: the loop ends at the first reference that fails
RECURSIVE ProcessUntilFailure(_)
ProcessUntilFailure(refs) ==
    IF refs = <<>> \/ ~RefResolves(Head(refs)) THEN <<>>
    ELSE <<ImageRecord(Head(refs))>> \o ProcessUntilFailure(Tail(refs))

RECURSIVE ProcessProjectImages(_)
ProcessProjectImages(refs) ==
    IF refs = <<>> THEN <<>>
    ELSE (IF RefResolves(Head(refs)) THEN <<ImageRecord(Head(refs))>> ELSE <<>>)
         \o ProcessProjectImages(Tail(refs))

\* project.processedImages.find(img => img.name === name): 0 when there is none
FindImage(images, name) ==
    IF \E k \in 1..Len(images) : images[k].name = name
    THEN CHOOSE k \in 1..Len(images) :
            /\ images[k].name = name
            /\ \A j \in 1..(k - 1) : images[j].name # name
    ELSE 0

(***************************************************************************)
(* Calls to the document writer.                                           *)
(***************************************************************************)
ZeroRect == Rect(QInt(0), QInt(0), QInt(0), QInt(0))

\* op: "text", "image", "stroke" (the border rectangle) or "addPage";
\* rect: where it draws; box: for an image, the box handed to addImageToPage.
\* The other fields record where the call comes from: kind of page, number
\* n of images of a gallery page and the image's index (slot) in it,
\* instruction index (ins), project index (proj, 0 for the cover) and the
\* index of the output page it lands on.  An image call also records the
\* raster it draws ("original": image.path, "resized": processedBuffer), the
\* resize that was asked for ("none", "done", "failed"), its target size in
\* pixels and its quality; a stroke call records its line width.
Call(op, what, rect, box) ==
    [op |-> op, what |-> what, rect |-> rect, box |-> box,
     slot |-> 0, n |-> 0, kind |-> "", ins |-> 0, proj |-> 0, page |-> 0,
     raster |-> "", resize |-> "none", target |-> <<0, 0>>, quality |-> 0,
     lineWidth |-> QInt(0)]

TextCall(what, x, y, w, h) == Call("text", Kw(what), Rect(x, y, w, h), Rect(x, y, w, h))

AddPageCall == Call("addPage", Kw(""), ZeroRect, ZeroRect)

\* variant: the per-image flag is ignored
ShouldDrawBorderGlobalOnly(image) == GlobalBorderEnabled
\* image.border || (borderConfig && borderConfig.enabled)
ShouldDrawBorder(image) == image.border \/ GlobalBorderEnabled

\* Math.round(width * dpi / 72): points to pixels
TargetSize(points) == Round(QDiv(QMul(points, QInt(Dpi)), QInt(72)))

\* dpi < 300 || (image.width > targetWidth * 2)
NeedsResize(image, targetWidth) == Dpi < 300 \/ image.width > targetWidth * 2

\* .jpeg({ quality: dpi >= 300 ? 95 : 85 })
Quality == IF Dpi >= 300 THEN 95 ELSE 85

\* sharp(image.path).resize(w, h, ...).jpeg(...).toBuffer(): resize rejects a
\* width or height that is not a positive integer, toBuffer a file it
\* cannot decode
ResizeSucceeds(image, targetWidth, targetHeight) ==
    targetWidth > 0 /\ targetHeight > 0 /\ DecodeSucceeds(image.name)

\* the border rectangle
Border(image, r, b) ==
    IF ShouldDrawBorder(image)
    THEN <<[Call("stroke", image.name, r, b) EXCEPT !.lineWidth = BorderWidth]>>
    ELSE <<>>

\* variant: nothing is drawn when the resize fails
AddImageNoFallback(image, x, y, maxWidth, maxHeight) ==
    LET r == FitRect(image, x, y, maxWidth, maxHeight)
        b == Rect(x, y, maxWidth, maxHeight)
        targetWidth == TargetSize(r.w)
        targetHeight == TargetSize(r.h)
        asked == NeedsResize(image, targetWidth)
        done == asked /\ ResizeSucceeds(image, targetWidth, targetHeight)
    IN  (IF asked /\ ~done THEN <<>>
         ELSE <<[Call("image", image.name, r, b) EXCEPT
                    !.raster = IF done THEN "resized" ELSE "original",
                    !.resize = IF asked THEN "done" ELSE "none",
                    !.target = <<targetWidth, targetHeight>>,
                    !.quality = IF asked THEN Quality ELSE 0]>>)
        \o Border(image, r, b)
\* addImageToPage: the resize when it is needed, doc.image(...) at the
\* placement rectangle (the original file when the resize failed), then the
\* border
AddImageToPage(image, x, y, maxWidth, maxHeight) ==
    LET r == FitRect(image, x, y, maxWidth, maxHeight)
        b == Rect(x, y, maxWidth, maxHeight)
        targetWidth == TargetSize(r.w)
        targetHeight == TargetSize(r.h)
        asked == NeedsResize(image, targetWidth)
        done == asked /\ ResizeSucceeds(image, targetWidth, targetHeight)
    IN  <<[Call("image", image.name, r, b) EXCEPT
              !.raster = IF done THEN "resized" ELSE "original",
              !.resize = IF ~asked THEN "none" ELSE IF done THEN "done" ELSE "failed",
              !.target = <<targetWidth, targetHeight>>,
              !.quality = IF asked THEN Quality ELSE 0]>>
        \o Border(image, r, b)

(***************************************************************************)
(* createGalleryPage                                                       *)
(***************************************************************************)
Gap == 20

AvailableWidth == QInt(PageWidth - Margin * 2)
AvailableHeight == QInt(PageHeight - Margin * 2)

\* variant: Math.floor in place of Math.ceil
GridColsFloor(n) == IF CeilSqrt(n) * CeilSqrt(n) = n THEN CeilSqrt(n) ELSE CeilSqrt(n) - 1
\* Math.ceil(Math.sqrt(images.length)), Math.ceil(images.length / cols)
GridCols(n) == CeilSqrt(n)
GridRows(n) == CeilDiv(n, GridCols(n))

\* the box of image i (from 0) of n >= 3 images
GridBox(n, i) ==
    LET cols == GridCols(n)
        rows == GridRows(n)
        imageWidth == QDiv(QSub(AvailableWidth, QInt(Gap * (cols - 1))), QInt(cols))
        imageHeight == QDiv(QSub(AvailableHeight, QInt(Gap * (rows - 1))), QInt(rows))
        col == i % cols
        row == i \div cols
    IN  Rect(QAdd(QInt(Margin), QMul(QInt(col), QAdd(imageWidth, QInt(Gap)))),
             QAdd(QInt(Margin), QMul(QInt(row), QAdd(imageHeight, QInt(Gap)))),
             imageWidth, imageHeight)

\* variant: two images side by side
PairBoxSideBySide(i) ==
    LET imageWidth == QDiv(QSub(AvailableWidth, QInt(Gap)), QInt(2))
    IN  Rect(IF i = 0 THEN QInt(Margin) ELSE QAdd(QInt(Margin), QAdd(imageWidth, QInt(Gap))),
             QInt(Margin), imageWidth, AvailableHeight)
\* the box of image i (from 0) of 2 images
PairBox(i) ==
    LET imageHeight == QDiv(QSub(AvailableHeight, QInt(Gap)), QInt(2))
    IN  Rect(QInt(Margin),
             IF i = 0 THEN QInt(Margin) ELSE QAdd(QInt(Margin), QAdd(imageHeight, QInt(Gap))),
             AvailableWidth, imageHeight)

GalleryBox(n, i) ==
    IF n = 1 THEN Rect(QInt(Margin), QInt(Margin), AvailableWidth, AvailableHeight)
    ELSE IF n = 2 THEN PairBox(i)
    ELSE GridBox(n, i)

RECURSIVE GalleryFrom(_, _)
GalleryFrom(images, i) ==
    IF i >= Len(images) THEN <<>>
    ELSE LET b == GalleryBox(Len(images), i)
             calls == AddImageToPage(images[i + 1], b.x, b.y, b.w, b.h)
         IN  [k \in 1..Len(calls) |-> [calls[k] EXCEPT !.slot = i, !.n = Len(images)]]
             \o GalleryFrom(images, i + 1)

CreateGalleryPage(images) == GalleryFrom(images, 0)

(***************************************************************************)
(* createFullPage                                                          *)
(***************************************************************************)
CreateFullPage(image) ==
    AddImageToPage(image, QInt(Margin), QInt(Margin), AvailableWidth, AvailableHeight)

(***************************************************************************)
(* Info pages.  A project is a record                                      *)
(*   [link, credits, description : BOOLEAN (the field is given),           *)
(*    images (references), hasLayout, pages, processedImages].             *)
(* doc.text(s, x, y) leaves doc.y at y + the rendered height of s.         *)
(***************************************************************************)
QMargin == QInt(Margin)
TextWidth == QInt(PageWidth - Margin * 2)
NoWidth == QInt(0)

H(what) == QInt(textH[what])

\* createInfoPage: the fixed template of the default layout
CreateInfoPage(project) ==
    LET y1 == QAdd(QMargin, QInt(20))
        t1 == TextCall("title", QMargin, y1, NoWidth, H("title"))
        y2 == QAdd(QAdd(y1, H("title")), QInt(20))
        t2 == TextCall("medium", QMargin, y2, NoWidth, H("medium"))
        d2 == QAdd(y2, H("medium"))
        y3 == QAdd(d2, QInt(15))
        d3 == IF project.credits THEN QAdd(y3, H("credits")) ELSE d2
        y4 == QAdd(d3, QInt(30))
        d4 == IF project.description THEN QAdd(y4, H("description")) ELSE d3
        y5 == QAdd(d4, QInt(20))
    IN  <<t1, t2>>
        \o (IF project.credits
            THEN <<TextCall("credits", QMargin, y3, NoWidth, H("credits"))>> ELSE <<>>)
        \o (IF project.description
            THEN <<TextCall("description", QMargin, y4, TextWidth, H("description"))>> ELSE <<>>)
        \o (IF project.link
            THEN <<TextCall("link", QMargin, y5, TextWidth, H("link"))>> ELSE <<>>)

\* one token of createSingleColumnInfoPage: [calls, y] (the calls, the new currentY)
SingleColumnItem(project, item, currentY) ==
    LET text(what, w, inc) ==
            [calls |-> <<TextCall(what, QMargin, currentY, w, H(what))>>,
             y |-> QAdd(QAdd(currentY, H(what)), QInt(inc))]
        nothing == [calls |-> <<>>, y |-> currentY]
    IN  CASE item = Kw("title") -> text("title", NoWidth, 20)
          [] item = Kw("medium") -> text("medium", NoWidth, 10)
          [] item = Kw("year") -> text("year", NoWidth, 10)
          [] item = Kw("credits") ->
                IF project.credits THEN text("credits", NoWidth, 15) ELSE nothing
          [] item = Kw("description") -> text("description", TextWidth, 20)
          [] item = Kw("link") ->
                IF project.link THEN text("link", TextWidth, 15) ELSE nothing
          [] OTHER ->
                IF MatchesImageRegex(item)
                   /\ FindImage(project.processedImages, item) # 0
                THEN LET image == project.processedImages[FindImage(project.processedImages, item)]
                         remainingHeight == QSub(QSub(QInt(PageHeight), currentY), QMargin)
                         maxImageHeight ==
                             QMin(QMin(QMul(remainingHeight, Q(6, 10)),
                                       QMul(QInt(PageHeight), Q(4, 10))),
                                  QInt(400))
                     IN  [calls |-> AddImageToPage(image, QMargin, currentY,
                                                   TextWidth, maxImageHeight),
                          y |-> QAdd(QAdd(currentY, maxImageHeight), QInt(20))]
                ELSE nothing

RECURSIVE SingleColumnFrom(_, _, _, _)
SingleColumnFrom(project, content, k, currentY) ==
    IF k > Len(content) THEN <<>>
    ELSE LET step == SingleColumnItem(project, content[k], currentY)
         IN  step.calls \o SingleColumnFrom(project, content, k + 1, step.y)

CreateSingleColumnInfoPage(project, page) ==
    SingleColumnFrom(project, page.content, 1, QAdd(QMargin, QInt(20)))

\* createTwoColumnInfoPage
ColumnGap == 40
TextColumnWidth == QMul(QInt(PageWidth - Margin * 2 - ColumnGap), Q(45, 100))
ImageColumnWidth == QMul(QInt(PageWidth - Margin * 2 - ColumnGap), Q(55, 100))
ImageColumnX == QAdd(QAdd(QMargin, TextColumnWidth), QInt(ColumnGap))

\* the pre-computed height of one token (lineSpacing)
PlannedHeight(project, item) ==
    CASE item = Kw("title") -> QInt(44 + 20)
      [] item = Kw("medium") -> QInt(14 + 10)
      [] item = Kw("year") -> QInt(14 + 10)
      [] item = Kw("description") -> QAdd(H("description"), QInt(20))
      [] item = Kw("link") -> IF project.link THEN QInt(10 + 15) ELSE QInt(0)
      [] OTHER -> QInt(0)

RECURSIVE PlannedTextHeight(_, _, _)
PlannedTextHeight(project, content, k) ==
    IF k > Len(content) THEN QInt(0)
    ELSE QAdd(IF MatchesImageRegex(content[k]) THEN QInt(0)
              ELSE PlannedHeight(project, content[k]),
              PlannedTextHeight(project, content, k + 1))

\* one token of the render pass: [calls, y]
TwoColumnItem(project, item, currentY) ==
    LET text(what, inc) ==
            [calls |-> <<TextCall(what, QMargin, currentY, TextColumnWidth, H(what))>>,
             y |-> QAdd(QAdd(currentY, H(what)), QInt(inc))]
        nothing == [calls |-> <<>>, y |-> currentY]
    IN  IF MatchesImageRegex(item) THEN nothing
        ELSE CASE item = Kw("title") -> text("title", 20)
               [] item = Kw("medium") -> text("medium", 10)
               [] item = Kw("year") -> text("year", 10)
               [] item = Kw("description") -> text("description", 20)
               [] item = Kw("link") -> IF project.link THEN text("link", 15) ELSE nothing
               [] OTHER -> nothing

RECURSIVE TwoColumnFrom(_, _, _, _)
TwoColumnFrom(project, content, k, currentY) ==
    IF k > Len(content) THEN <<>>
    ELSE LET step == TwoColumnItem(project, content[k], currentY)
         IN  step.calls \o TwoColumnFrom(project, content, k + 1, step.y)

\* page.content.find(item => item.match(...)): 0 when there is none
FirstImageToken(content) ==
    IF \E k \in 1..Len(content) : MatchesImageRegex(content[k])
    THEN CHOOSE k \in 1..Len(content) :
            /\ MatchesImageRegex(content[k])
            /\ \A j \in 1..(k - 1) : ~MatchesImageRegex(content[j])
    ELSE 0

CreateTwoColumnInfoPage(project, page) ==
    LET textHeight == PlannedTextHeight(project, page.content, 1)
        currentY == QAdd(QMargin, QDiv(QSub(AvailableHeight, textHeight), QInt(2)))
        t == FirstImageToken(page.content)
        f == IF t = 0 THEN 0 ELSE FindImage(project.processedImages, page.content[t])
    IN  TwoColumnFrom(project, page.content, 1, currentY)
        \o (IF f # 0
            THEN AddImageToPage(project.processedImages[f], ImageColumnX,
                                QAdd(QMargin, QInt(20)), ImageColumnWidth,
                                QInt(PageHeight - Margin * 3))
            ELSE <<>>)

\* createInfoPageFromLayout: hasImage && isLandscape
HasImage(content) == \E k \in 1..Len(content) : MatchesImageRegex(content[k])
IsLandscape == PageWidth > PageHeight

\* variant: the orientation of the page is ignored
UseTwoColumnAnyPage(content) == HasImage(content)
\* if (hasImage && isLandscape)
UseTwoColumn(content) == HasImage(content) /\ IsLandscape

SetKind(calls, kind) == [k \in 1..Len(calls) |-> [calls[k] EXCEPT !.kind = kind]]

CreateInfoPageFromLayout(project, page) ==
    IF UseTwoColumn(page.content)
    THEN SetKind(CreateTwoColumnInfoPage(project, page), "twoColumn")
    ELSE SetKind(CreateSingleColumnInfoPage(project, page), "singleColumn")

(***************************************************************************)
(* createProjectPage, createProjectPages, createDefaultProjectLayout       *)
(***************************************************************************)
\* content.filter(endsWith...).map(find).filter(Boolean)
GalleryImages(project, page) ==
    LET names == SelectSeq(page.content, EndsWithImageSuffix)
        Resolved(t) == FindImage(project.processedImages, t) # 0
        found == SelectSeq(names, Resolved)
    IN  [k \in 1..Len(found) |-> project.processedImages[FindImage(project.processedImages, found[k])]]

\* variant: an unresolved name falls back to the first image
FullImageOrFirst(project, page) ==
    IF Len(project.processedImages) > 0 THEN 1 ELSE 0
\* project.processedImages.find(img => img.name === page.content[0]): 0 when none
FullImage(project, page) ==
    IF Len(page.content) = 0 THEN 0
    ELSE FindImage(project.processedImages, page.content[1])

CreateProjectPage(project, page) ==
    CASE page.type = "info" -> CreateInfoPageFromLayout(project, page)
      [] page.type = "gallery" ->
            SetKind(CreateGalleryPage(GalleryImages(project, page)), "gallery")
      [] page.type = "full" ->
            IF FullImage(project, page) # 0
            THEN SetKind(CreateFullPage(project.processedImages[FullImage(project, page)]), "full")
            ELSE <<>>
      [] OTHER -> <<>>

SetIns(calls, i) == [k \in 1..Len(calls) |-> [calls[k] EXCEPT !.ins = i]]

\* page.content.some / .filter / [0] throw a TypeError when the page has no
\* content; a type without case reads nothing
PageThrows(page) == ~page.hasContent /\ page.type \in {"info", "gallery", "full"}

\* the first page of the layout that throws: 0 when there is none
FirstThrow(project) ==
    IF \E k \in 1..Len(project.pages) : PageThrows(project.pages[k])
    THEN CHOOSE k \in 1..Len(project.pages) :
            /\ PageThrows(project.pages[k])
            /\ \A j \in 1..(k - 1) : ~PageThrows(project.pages[j])
    ELSE 0

\* the loop of createProjectPages over project.layout.pages, from page k on;
\* nothing catches the exception of a page: the loop ends there
RECURSIVE LayoutPagesFrom(_, _)
LayoutPagesFrom(project, k) ==
    IF k > Len(project.pages) \/ PageThrows(project.pages[k]) THEN <<>>
    ELSE SetIns(CreateProjectPage(project, project.pages[k]) \o <<AddPageCall>>, k)
         \o LayoutPagesFrom(project, k + 1)

\* images.slice(i, i + 2)
Min(a, b) == IF a < b THEN a ELSE b
\* variant: images.slice(i, i + 1)
SliceOne(images, i) == SubSeq(images, i + 1, i + 1)
SliceTwo(images, i) == SubSeq(images, i + 1, Min(i + 2, Len(images)))

\* variant: a page break after every gallery page
BreakAlways(i, n) == TRUE
\* if (i + 2 < images.length) doc.addPage()
BreakAfterGalleryPage(i, n) == i + 2 < n

\* the gallery loop of createDefaultProjectLayout, from image i (from 0) on
RECURSIVE DefaultGalleryFrom(_, _)
DefaultGalleryFrom(images, i) ==
    IF i >= Len(images) THEN <<>>
    ELSE SetIns(SetKind(CreateGalleryPage(SliceTwo(images, i)), "gallery")
                \o (IF BreakAfterGalleryPage(i, Len(images)) THEN <<AddPageCall>> ELSE <<>>),
                (i \div 2) + 1)
         \o DefaultGalleryFrom(images, i + 2)

CreateDefaultProjectLayout(project) ==
    SetKind(CreateInfoPage(project), "defaultInfo")
    \o <<AddPageCall>>
    \o DefaultGalleryFrom(project.processedImages, 0)

\* !project.layout || !project.layout.pages
UsesDefaultLayout(project) == ~project.hasLayout

(***************************************************************************)
(* createCoverPage                                                         *)
(***************************************************************************)
CreateCoverPage ==
    LET y1 == Q(PageHeight, 3)
        d1 == QAdd(y1, H("cover"))
        y2 == QAdd(d1, QInt(20))
        authorY == QInt(PageHeight - Margin * 5)
        d3 == QAdd(authorY, H("contact"))
        y4 == QAdd(d3, QInt(15))
        d4 == IF Truthy(config, "email") THEN QAdd(y4, H("contact")) ELSE d3
        y5 == QAdd(d4, QInt(15))
    IN  SetKind(
            <<TextCall("coverTitle", QMargin, y1, TextWidth, H("cover"))>>
            \o (IF Truthy(config, "subtitle")
                THEN <<TextCall("subtitle", QMargin, y2, TextWidth, H("cover"))>> ELSE <<>>)
            \o <<TextCall("author", QMargin, authorY, TextWidth, H("contact"))>>
            \o (IF Truthy(config, "email")
                THEN <<TextCall("email", QMargin, y4, TextWidth, H("contact"))>> ELSE <<>>)
            \o (IF Truthy(config, "website")
                THEN <<TextCall("website", QMargin, y5, TextWidth, H("contact"))>> ELSE <<>>)
            \o <<AddPageCall>>,
            "cover")

(***************************************************************************)
(* The document writer: every call lands on the current page; addPage      *)
(* starts the next one.                                                    *)
(***************************************************************************)
Breaks(calls) == Cardinality({k \in 1..Len(calls) : calls[k].op = "addPage"})

Issue(calls, proj) ==
    [k \in 1..Len(calls) |->
        [calls[k] EXCEPT !.proj = proj,
                         !.page = pageNo + Breaks(SubSeq(calls, 1, k - 1))]]

(***************************************************************************)
(* The steps of generate().                                                *)
(***************************************************************************)
\* loadConfig
LoadConfig ==
    /\ pc = "loadConfig"
    /\ config' = IF cfgFile.ok THEN cfgFile.data ELSE DefaultConfig
    /\ pc' = "loadProjects"
    /\ UNCHANGED <<cfgFile, dirs, pageDim, textH, projects, log, pageNo, doc, pi>>

\* the try block of loadProjects: readFile, JSON.parse and
\* processProjectImages all succeed
Loads(dir) ==
    /\ dir.descriptor = "ok"
    /\ \A i \in 1..Len(dir.project.images) : ~RefThrows(dir.project.images[i])

\* the loop of loadProjects over the directories from k on
RECURSIVE LoadFrom(_)
LoadFrom(k) ==
    IF k > Len(dirs) THEN <<>>
    ELSE (IF Loads(dirs[k])
          THEN <<[dirs[k].project EXCEPT
                    !.processedImages = ProcessProjectImages(dirs[k].project.images)]>>
          ELSE <<>>)
         \o LoadFrom(k + 1)

LoadProjects ==
    /\ pc = "loadProjects"
    /\ projects' = projects \o LoadFrom(1)
    /\ pc' = "createPDF"
    /\ UNCHANGED <<cfgFile, dirs, pageDim, textH, config, log, pageNo, doc, pi>>

\* createPDF up to the cover page: new PDFDocument, doc.pipe, createCoverPage
OpenAndCover ==
    /\ pc = "createPDF"
    /\ doc' = [state |-> "open",
               title |-> IF Truthy(config, "title") THEN config.title ELSE "Portfolio",
               author |-> IF Truthy(config, "author") THEN config.author ELSE "Artist",
               margin |-> Margin]
    /\ log' = log \o [k \in 1..Len(CreateCoverPage) |->
                        [CreateCoverPage[k] EXCEPT !.page = 1 + Breaks(SubSeq(CreateCoverPage, 1, k - 1))]]
    /\ pageNo' = 1 + Breaks(CreateCoverPage)
    /\ pi' = 1
    /\ pc' = "projects"
    /\ UNCHANGED <<cfgFile, dirs, pageDim, textH, config, projects>>

\* createProjectPages for a project without layout
RenderDefaultProject ==
    /\ pc = "projects"
    /\ pi <= Len(projects)
    /\ UsesDefaultLayout(projects[pi])
    /\ LET calls == CreateDefaultProjectLayout(projects[pi])
       IN  /\ log' = log \o Issue(calls, pi)
           /\ pageNo' = pageNo + Breaks(calls)
    /\ pi' = pi + 1
    /\ UNCHANGED <<cfgFile, dirs, pageDim, textH, config, projects, doc, pc>>

\* createProjectPages for a project with a layout
RenderLayoutProject ==
    /\ pc = "projects"
    /\ pi <= Len(projects)
    /\ ~UsesDefaultLayout(projects[pi])
    /\ LET calls == LayoutPagesFrom(projects[pi], 1)
       IN  /\ log' = log \o Issue(calls, pi)
           /\ pageNo' = pageNo + Breaks(calls)
    /\ IF FirstThrow(projects[pi]) = 0
       THEN pi' = pi + 1 /\ pc' = pc
       ELSE pi' = pi /\ pc' = "threw"
    /\ UNCHANGED <<cfgFile, dirs, pageDim, textH, config, projects, doc>>

\* variant: doc.end() without waiting for the projects
AllRenderedOrNot == TRUE
\* the loop of createPDF over this.projects has ended
AllRendered == pi > Len(projects)

\* doc.end(), and the promise of createPDF resolves on the writer's 'end'
EndDocument ==
    /\ pc = "projects"
    /\ AllRendered
    /\ doc' = [doc EXCEPT !.state = "ended"]
    /\ pc' = "done"
    /\ UNCHANGED <<cfgFile, dirs, pageDim, textH, config, projects, log, pageNo, pi>>

\* the write stream of doc.pipe(...) fails (it cannot be opened, or a write
\* fails) while the document is written: nothing listens for its 'error',
\* and the run ends there
SinkError ==
    /\ pc = "projects"
    /\ doc.state = "open"
    /\ pc' = "sinkFailed"
    /\ UNCHANGED <<cfgFile, dirs, pageDim, textH, config, projects, log, pageNo, doc, pi>>

Next ==
    \/ LoadConfig
    \/ LoadProjects
    \/ OpenAndCover
    \/ RenderDefaultProject
    \/ RenderLayoutProject
    \/ EndDocument
    \/ SinkError

(***************************************************************************)
(* Inputs: the files of inputDir and what the writer answers.              *)
(***************************************************************************)
SeqsOf(S, lo, hi) == UNION {[1..k -> S] : k \in lo..hi}

\* <<doc.page.width, doc.page.height>>: landscape, portrait, square
Landscape == <<600, 400>>
Portrait == <<400, 600>>
Square == <<500, 500>>
PageSizes == {Landscape, Portrait, Square}

\* rendered heights of the text blocks, in points
Nominal ==
    [title |-> 44, medium |-> 14, year |-> 14, credits |-> 12, description |-> 36,
     link |-> 10, cover |-> 36, contact |-> 12]
Typical ==
    [title |-> 28, medium |-> 16, year |-> 16, credits |-> 30, description |-> 60,
     link |-> 12, cover |-> 42, contact |-> 14]

\* config.json
NoConfig == [ok |-> FALSE, why |-> "missing"]
BadJsonConfig == [ok |-> FALSE, why |-> "unparsable"]
Cfg(data) == [ok |-> TRUE, data |-> data]
BaseData == [title |-> "My Work", author |-> "Me"]
PlainCfg == Cfg(BaseData)
MarginCfg == Cfg([title |-> "My Work", author |-> "Me", margin |-> 40])
BorderOffCfg ==
    Cfg([title |-> "My Work", author |-> "Me", subtitle |-> "2024",
         imageBorder |-> [enabled |-> FALSE]])
BorderOnCfg ==
    Cfg([title |-> "My Work", author |-> "Me", email |-> "me@example.com",
         imageBorder |-> [enabled |-> TRUE]])

\* image references of project.json
Str(tok) == [form |-> "string", name |-> tok, file |-> NoName, border |-> "absent"]
Obj(name, file, border) == [form |-> "object", name |-> name, file |-> file, border |-> border]

\* layout instructions; one without "content"
Page(type, content) == [type |-> type, content |-> content, hasContent |-> TRUE]
PageWithoutContent(type) == [type |-> type, content |-> <<>>, hasContent |-> FALSE]

\* project.json, as parsed
Project(meta, images, hasLayout, pages) ==
    [link |-> meta, credits |-> meta, description |-> meta,
     images |-> images, hasLayout |-> hasLayout, pages |-> pages,
     processedImages |-> <<>>]

OkDir(project) == [descriptor |-> "ok", project |-> project]
BadDir(why) == [descriptor |-> why, project |-> Project(FALSE, <<>>, FALSE, <<>>)]

\* the first n image files, over and over
Cycle == <<ImgA, ImgB, ImgC, ImgE>>
CycleNames(n) == [k \in 1..n |-> Cycle[((k - 1) % Len(Cycle)) + 1]]
AsRefs(names) == [k \in 1..Len(names) |-> Str(names[k])]

AllRefs == <<Str(ImgA), Str(ImgB), Str(ImgC), Str(ImgD), Str(ImgE), Str(ImgGone), Str(ImgBad)>>

(***************************************************************************)
(* The portfolios of the pipeline specification: up to MaxProjects         *)
(* directories, with and without layout, with and without descriptor.      *)
(***************************************************************************)
PipelineLayouts ==
    {<<>>,
     <<Page("full", <<ImgA>>)>>,
     <<Page("full", <<ImgGone>>), Page("gallery", <<ImgA, ImgB>>)>>,
     <<Page("info", <<Kw("title"), ImgA>>), Page("poster", <<ImgA>>)>>}

PipelineImages == {<<>>, <<Str(ImgA)>>, <<Str(ImgA), Str(ImgGone), Str(ImgB), Str(ImgC)>>}

\* descriptors that parse and are not what project.json is to be: a layout
\* page without content, an image reference without name
NoContentLayouts ==
    {<<Page("full", <<ImgA>>), PageWithoutContent("gallery"), Page("full", <<ImgB>>)>>,
     <<PageWithoutContent("poster"), Page("full", <<ImgA>>)>>}
NamelessRefs == <<Str(ImgA), Obj(NoName, NoName, "true"), Str(ImgB)>>

PipelineDirs ==
    {BadDir("missing"), BadDir("unparsable")}
    \cup {OkDir(Project(TRUE, <<Str(ImgA), Str(ImgB)>>, TRUE, pages)) : pages \in NoContentLayouts}
    \cup {OkDir(Project(TRUE, NamelessRefs, FALSE, <<>>))}
    \cup {OkDir(Project(TRUE, imgs, FALSE, <<>>)) : imgs \in PipelineImages}
    \cup {OkDir(Project(TRUE, imgs, TRUE, pages)) :
            imgs \in PipelineImages, pages \in PipelineLayouts}

Start ==
    /\ config = <<>>
    /\ projects = <<>>
    /\ log = <<>>
    /\ pageNo = 0
    /\ doc = [state |-> "none"]
    /\ pc = "loadConfig"
    /\ pi = 0

Init ==
    /\ \/ cfgFile = PlainCfg /\ pageDim \in {Landscape, Portrait}
       \/ cfgFile \in {NoConfig, BadJsonConfig} /\ pageDim = Landscape
    /\ textH = Typical
    /\ dirs \in SeqsOf(PipelineDirs, 0, MaxProjects)
    /\ Start

Spec == Init /\ [][Next]_vars

(***************************************************************************)
(* The layouts specification: one project, every layout instruction over   *)
(* a small alphabet of tokens, and the default layout over every list of   *)
(* images.                                                                 *)
(***************************************************************************)
InfoAlphabet == {Kw("title"), Kw("description"), Kw("credits"), Kw("link"), ImgA, ImgD, ImgGone}
GalleryAlphabet == {ImgA, ImgB, ImgC, ImgD, ImgGone, Kw("title")}

\* sequences without repetition
Distinct(seq) == \A i, j \in 1..Len(seq) : i # j => seq[i] # seq[j]

InfoPages ==
    {Page("info", c) : c \in {q \in SeqsOf(InfoAlphabet, 1, MaxTokens) : Distinct(q)}}
GalleryPages ==
    {Page("gallery", c) : c \in SeqsOf(GalleryAlphabet, 0, 2)}
    \cup {Page("gallery", CycleNames(n)) : n \in 3..MaxImages}
    \cup {Page("gallery", <<ImgB, ImgGone>> \o CycleNames(n) \o <<Kw("title"), ImgD>>) :
            n \in 2..(MaxImages - 1)}
FullPages ==
    {Page("full", c) : c \in {<<>>, <<ImgA>>, <<ImgB>>, <<ImgD>>, <<ImgGone>>, <<ImgBad>>,
                               <<Kw("title")>>, <<ImgGone, ImgA>>}}

InfoDirs == {OkDir(Project(m, AllRefs, TRUE, <<p>>)) : m \in BOOLEAN, p \in InfoPages}
ImageDirs == {OkDir(Project(TRUE, AllRefs, TRUE, <<p>>)) : p \in GalleryPages \cup FullPages}
DefaultDirs ==
    {OkDir(Project(m, AsRefs(names), FALSE, <<>>)) :
        m \in BOOLEAN, names \in SeqsOf({ImgA, ImgB, ImgC}, 0, MaxImages)}

InitLayout ==
    /\ \/ /\ dirs \in {<<d>> : d \in InfoDirs}
          /\ cfgFile = PlainCfg
          /\ pageDim \in PageSizes
          /\ textH \in {Nominal, Typical}
       \/ /\ dirs \in {<<d>> : d \in ImageDirs}
          /\ cfgFile \in {PlainCfg, MarginCfg}
          /\ pageDim \in PageSizes
          /\ textH = Typical
       \/ /\ dirs \in {<<d>> : d \in DefaultDirs}
          /\ cfgFile = PlainCfg
          /\ pageDim \in {Landscape, Portrait}
          /\ textH = Typical
    /\ Start

SpecLayout == InitLayout /\ [][Next]_vars

(***************************************************************************)
(* The catalog specification: one project, every list of image references  *)
(* in both forms, over files that resolve and files that do not.           *)
(***************************************************************************)
RefAlphabet ==
    {Str(ImgA), Str(ImgB), Str(ImgGone), Str(ImgBad),
     Obj(ImgA, NoName, "true"), Obj(NoName, ImgB, "absent"),
     Obj(ImgC, NoName, "false"), Obj(ImgGone, NoName, "true")}

CatalogLayout ==
    <<Page("info", <<Kw("title"), ImgA>>),
      Page("gallery", <<ImgA, ImgB, ImgC, ImgGone>>),
      Page("full", <<ImgB>>),
      Page("full", <<ImgGone>>),
      Page("full", <<ImgA>>)>>

CatalogDirs ==
    {OkDir(Project(TRUE, refs, FALSE, <<>>)) : refs \in SeqsOf(RefAlphabet, 0, MaxRefs)}
    \cup {OkDir(Project(TRUE, refs, TRUE, CatalogLayout)) : refs \in SeqsOf(RefAlphabet, 0, MaxRefs)}

InitCatalog ==
    /\ cfgFile \in {PlainCfg, BorderOffCfg, BorderOnCfg}
    /\ pageDim = Landscape
    /\ textH = Typical
    /\ dirs \in {<<d>> : d \in CatalogDirs}
    /\ Start

SpecCatalog == InitCatalog /\ [][Next]_vars

(***************************************************************************)
(* The configuration specification: one project over every numeric field   *)
(* of config.json, absent, zero, positive and negative.  A field is given  *)
(* as the set of its values: {} when config.json does not hold it.         *)
(***************************************************************************)
One(S) == CHOOSE v \in S : TRUE

ConfigData(margins, dpis, borders) ==
    [f \in {"title", "author"}
            \cup (IF margins = {} THEN {} ELSE {"margin"})
            \cup (IF dpis = {} THEN {} ELSE {"dpi"})
            \cup (IF borders = {} THEN {} ELSE {"imageBorder"}) |->
        CASE f = "title" -> "My Work"
          [] f = "author" -> "Me"
          [] f = "margin" -> One(margins)
          [] f = "dpi" -> One(dpis)
          [] f = "imageBorder" -> One(borders)]

MarginValues == {{}, {0}, {10}, {40}, {-10}}
DpiValues == {{}, {0}, {150}, {300}, {-150}}
BorderValues ==
    {{[enabled |-> TRUE]}, {[enabled |-> TRUE, width |-> 2]},
     {[enabled |-> TRUE, width |-> 0]}, {[enabled |-> TRUE, width |-> -1]},
     {[enabled |-> FALSE, width |-> 2]}}

NumericCfgs ==
    {Cfg(ConfigData(m, d, {})) : m \in MarginValues, d \in DpiValues}
    \cup {Cfg(ConfigData({}, d, b)) : d \in {{}, {150}}, b \in BorderValues}

\* a long description: on the portrait page it ends 12pt above the bottom margin
Long ==
    [title |-> 28, medium |-> 16, year |-> 16, credits |-> 30, description |-> 460,
     link |-> 12, cover |-> 42, contact |-> 14]

ConfigRefs ==
    <<Str(ImgA), Obj(ImgB, NoName, "true"), Str(ImgC), Str(ImgE), Str(ImgGone)>>

ConfigLayout ==
    <<Page("info", <<Kw("title"), Kw("description"), ImgA>>),
      Page("gallery", <<ImgA>>),
      Page("gallery", <<ImgB, ImgC>>),
      Page("gallery", CycleNames(MaxImages)),
      Page("full", <<ImgE>>)>>

ConfigDirs ==
    {OkDir(Project(TRUE, ConfigRefs, TRUE, ConfigLayout)),
     OkDir(Project(TRUE, ConfigRefs, FALSE, <<>>))}

InitConfig ==
    /\ cfgFile \in NumericCfgs \cup {NoConfig, BadJsonConfig}
    /\ \/ pageDim \in PageSizes /\ textH = Typical
       \/ pageDim = Portrait /\ textH = Long
    /\ dirs \in {<<d>> : d \in ConfigDirs}
    /\ Start

SpecConfig == InitConfig /\ [][Next]_vars

(***************************************************************************)
(* Vocabulary of the properties.                                           *)
(***************************************************************************)
Idx == 1..Len(log)
ImageCalls == {k \in Idx : log[k].op = "image"}
DrawCalls == {k \in Idx : log[k].op # "addPage"}
Rendered(p) == pc \in {"projects", "done"} /\ p \in 1..Len(projects) /\ p < pi

\* the content area of the page, from the effective margin
EffMargin == doc.margin
AreaW == QInt(pageDim[1] - 2 * EffMargin)
AreaH == QInt(pageDim[2] - 2 * EffMargin)

Right(r) == QAdd(r.x, r.w)
Bottom(r) == QAdd(r.y, r.h)
Inside(r, b) ==
    /\ QLe(b.x, r.x) /\ QLe(Right(r), Right(b))
    /\ QLe(b.y, r.y) /\ QLe(Bottom(r), Bottom(b))

\* C1: the rectangle addImageToPage computes for an image of positive
\* width and height in a box of positive width and height lies inside the
\* box, has the width or the height of the box, and has the image's ratio
\* of width to height.
C1_FitInsideTouchingRatio ==
    \A k \in ImageCalls :
        LET c == log[k]
            m == Metadata(c.what)
        IN  (m.width > 0 /\ m.height > 0 /\ QPos(c.box.w) /\ QPos(c.box.h)) =>
                /\ Inside(c.rect, c.box)
                /\ c.rect.w = c.box.w \/ c.rect.h = c.box.h
                /\ QMul(c.rect.w, QInt(m.height)) = QMul(c.rect.h, QInt(m.width))

\* an image narrower than its box (height-constrained) and another one
\* lower than its box (width-constrained) have been placed
C1_Witness ==
    /\ \E k \in ImageCalls :
            /\ QPos(log[k].box.w) /\ QPos(log[k].box.h)
            /\ log[k].rect.h = log[k].box.h /\ QLt(log[k].rect.w, log[k].box.w)
    /\ \E k \in ImageCalls :
            /\ QPos(log[k].box.w) /\ QPos(log[k].box.h)
            /\ log[k].rect.w = log[k].box.w /\ QLt(log[k].rect.h, log[k].box.h)

\* the cell of column col and row row in a grid of cols x rows cells
Cell(cols, rows, col, row) ==
    LET w == QDiv(QSub(AreaW, QInt(20 * (cols - 1))), QInt(cols))
        h == QDiv(QSub(AreaH, QInt(20 * (rows - 1))), QInt(rows))
    IN  Rect(QAdd(QInt(EffMargin), QMul(QInt(col), QAdd(w, QInt(20)))),
             QAdd(QInt(EffMargin), QMul(QInt(row), QAdd(h, QInt(20)))), w, h)

\* apart by at least 20pt, horizontally or vertically
Apart(a, b) ==
    \/ QLe(QAdd(Right(a), QInt(20)), b.x) \/ QLe(QAdd(Right(b), QInt(20)), a.x)
    \/ QLe(QAdd(Bottom(a), QInt(20)), b.y) \/ QLe(QAdd(Bottom(b), QInt(20)), a.y)

SamePage(a, b) == a.proj = b.proj /\ a.ins = b.ins /\ a.page = b.page

\* the images a gallery instruction resolves, in the order of its content
ResolvedNames(project, content) ==
    LET Shown(t) ==
            /\ t.ext \in {".jpg", ".png", ".jpeg"}
            /\ \E j \in 1..Len(project.processedImages) : project.processedImages[j].name = t
    IN  SelectSeq(content, Shown)

\* C2: a gallery page of n >= 3 images is a grid of ceil(sqrt(n)) columns
\* and ceil(n / columns) rows filled row by row, its cells apart by 20pt and
\* the cells after the last image empty; 5 images give 3 x 2 with the cell
\* of column 2, row 1 empty.
C2_GalleryGrid ==
    \A k \in ImageCalls :
        LET c == log[k] IN
        (c.kind = "gallery" /\ c.n >= 3) =>
            /\ \E cols, rows \in 1..c.n :
                    /\ (cols - 1) * (cols - 1) < c.n /\ c.n <= cols * cols
                    /\ (rows - 1) * cols < c.n /\ c.n <= rows * cols
                    /\ c.box = Cell(cols, rows, c.slot % cols, c.slot \div cols)
                    /\ c.n = 5 =>
                            /\ cols = 3 /\ rows = 2
                            /\ \A j \in ImageCalls :
                                   SamePage(log[j], c) => log[j].box # Cell(3, 2, 2, 1)
            /\ c.what = ResolvedNames(projects[c.proj], projects[c.proj].pages[c.ins].content)[c.slot + 1]
            /\ c.n = Len(ResolvedNames(projects[c.proj], projects[c.proj].pages[c.ins].content))
            /\ \A s \in 0..(c.n - 1) :
                    Cardinality({j \in ImageCalls : SamePage(log[j], c) /\ log[j].slot = s}) = 1
            /\ \A j \in ImageCalls :
                    (SamePage(log[j], c) /\ j # k) => Apart(log[j].box, c.box)

\* five images have been placed on a gallery page with a square content area
C2_Witness ==
    /\ pageDim[1] = pageDim[2]
    /\ \E k \in ImageCalls :
            /\ log[k].kind = "gallery" /\ log[k].n = 5 /\ log[k].slot = 4
            /\ log[k].box = Cell(3, 2, 1, 1)

CallsOf(p) == SelectSeq(log, LAMBDA c : c.proj = p)
ImagesOf(p) == SelectSeq(log, LAMBDA c : c.proj = p /\ c.op = "image")
BreaksOf(p) == SelectSeq(log, LAMBDA c : c.proj = p /\ c.op = "addPage")
FirstPageOf(p) == CallsOf(p)[1].page

\* C4: a project without layout gets one info page, then ceil(n/2) gallery
\* pages for its n resolved images; gallery page j holds images 2j and 2j+1
\* (the last page one image when n is odd): every image is placed once.
C4_DefaultLayoutPages ==
    \A p \in 1..Len(projects) :
        (Rendered(p) /\ ~projects[p].hasLayout) =>
            LET n == Len(projects[p].processedImages)
                first == FirstPageOf(p)
                imgs == ImagesOf(p)
            IN  /\ \E c \in {CallsOf(p)[k] : k \in 1..Len(CallsOf(p))} :
                        c.op = "text" /\ c.page = first
                /\ \A k \in 1..Len(CallsOf(p)) :
                        LET c == CallsOf(p)[k] IN
                        /\ c.op = "text" => c.page = first
                        /\ c.page \in first..(first + ((n + 1) \div 2))
                /\ Len(imgs) = n
                /\ \A k \in 1..Len(imgs) :
                        /\ imgs[k].what = projects[p].processedImages[k].name
                        /\ imgs[k].page = first + 1 + ((k - 1) \div 2)

\* a project without layout and with an odd number (3 or more) of images
\* has been rendered, its last gallery page holding one image
C4_Witness ==
    \E p \in 1..Len(projects) :
        /\ Rendered(p) /\ ~projects[p].hasLayout
        /\ Len(projects[p].processedImages) >= 3
        /\ Len(projects[p].processedImages) % 2 = 1
        /\ ImagesOf(p)[Len(ImagesOf(p))].n = 1

\* a token that names an image file: the suffix .jpg, .jpeg or .png in
\* either letter case
ImageToken(t) == t.ext \in {".jpg", ".jpeg", ".png", ".JPG", ".JPEG", ".PNG"}

\* C7: an info instruction is laid out in two columns if and only if its
\* content holds an image token and the page is wider than high; otherwise
\* in a single column.
C7_TwoColumnIffImageAndLandscape ==
    \A k \in Idx :
        LET c == log[k] IN
        (c.proj >= 1 /\ c.op # "addPage" /\ projects[c.proj].hasLayout
            /\ projects[c.proj].pages[c.ins].type = "info") =>
            LET content == projects[c.proj].pages[c.ins].content
                two == (\E t \in 1..Len(content) : ImageToken(content[t]))
                       /\ pageDim[1] > pageDim[2]
            IN  /\ c.kind \in {"twoColumn", "singleColumn"}
                /\ c.kind = "twoColumn" <=> two

\* an info instruction has been laid out in two columns, with its image
C7_Witness ==
    \E k \in ImageCalls : log[k].kind = "twoColumn"

\* C5: a project with a layout of k instructions gets exactly k page
\* breaks, one directly after each instruction's page (also after the last
\* one and after one that drew nothing); a project without layout gets no
\* page break after its last gallery page.
C5_PageBreaks ==
    \A p \in 1..Len(projects) :
        Rendered(p) =>
            LET calls == CallsOf(p)
                k == Len(projects[p].pages)
                n == Len(projects[p].processedImages)
            IN  IF projects[p].hasLayout
                THEN /\ Len(BreaksOf(p)) = k
                     /\ \A i \in 1..k :
                            \E a \in 1..Len(calls) :
                                /\ calls[a].op = "addPage" /\ calls[a].ins = i
                                /\ \A b \in 1..Len(calls) :
                                        /\ (calls[b].ins = i /\ b # a) =>
                                                (b < a /\ calls[b].op # "addPage")
                                        /\ calls[b].ins > i => b > a
                ELSE n >= 1 =>
                        \A a \in 1..Len(calls) :
                            calls[a].op = "addPage" =>
                                \E b \in (a + 1)..Len(calls) : calls[b].op = "image"

\* a project whose layout holds an instruction that drew nothing and a
\* project without layout that has images have both been rendered
C5_Witness ==
    /\ \E p \in 1..Len(projects) :
            /\ Rendered(p) /\ projects[p].hasLayout /\ Len(projects[p].pages) = 2
            /\ \E i \in 1..2 : \A a \in 1..Len(CallsOf(p)) :
                    CallsOf(p)[a].ins = i => CallsOf(p)[a].op = "addPage"
            /\ Len(ImagesOf(p)) > 0
    /\ \E q \in 1..Len(projects) :
            /\ Rendered(q) /\ ~projects[q].hasLayout
            /\ Len(projects[q].processedImages) >= 3

\* C6: no output page receives draw calls of two different projects.
C6_ProjectsOnOwnPages ==
    \A j, k \in DrawCalls :
        log[j].page = log[k].page => log[j].proj = log[k].proj

\* what a reference of project.json says: the file it names, whether it
\* carries border:true, whether its file is accessible and can be probed
FileOf(r) == IF r.form = "object" /\ r.name = NoName THEN r.file ELSE r.name
CarriesBorder(r) == r.form = "object" /\ r.border = "true"
Resolves(r) == FileAccessible(FileOf(r)) /\ ProbeSucceeds(FileOf(r))
GoodRefs(refs) == SelectSeq(refs, Resolves)

GlobalBorderOn ==
    cfgFile.ok /\ "imageBorder" \in DOMAIN cfgFile.data /\ cfgFile.data.imageBorder.enabled

\* the reference behind the image call at k: in the default layout the
\* references are drawn one after the other, a layout instruction names the
\* (first) reference of that file
RefBehind(k) ==
    LET p == log[k].proj
        refs == GoodRefs(projects[p].images)
    IN  IF projects[p].hasLayout
        THEN refs[CHOOSE i \in 1..Len(refs) :
                    /\ FileOf(refs[i]) = log[k].what
                    /\ \A j \in 1..(i - 1) : FileOf(refs[j]) # log[k].what]
        ELSE refs[Cardinality({j \in ImageCalls : j <= k /\ log[j].proj = p})]

Bordered(k) ==
    /\ k + 1 <= Len(log)
    /\ log[k + 1].op = "stroke"
    /\ log[k + 1].what = log[k].what
    /\ log[k + 1].rect = log[k].rect
    /\ log[k + 1].page = log[k].page

C9_CatalogIsOrderedFilter ==
    pc \notin {"loadConfig", "loadProjects"} =>
        LET okDirs == SelectSeq(dirs, LAMBDA d : d.descriptor = "ok")
        IN  /\ Len(projects) = Len(okDirs)
            /\ \A p \in 1..Len(projects) :
                    LET R == okDirs[p].project.images
                        P == projects[p].processedImages
                        good == {i \in 1..Len(R) : Resolves(R[i])}
                    IN  /\ Len(P) = Cardinality(good)
                        /\ \A i \in good :
                                LET at == Cardinality({j \in good : j <= i})
                                IN  /\ P[at].name = FileOf(R[i])
                                    /\ P[at].border = CarriesBorder(R[i])
                                    /\ P[at].width = Metadata(FileOf(R[i])).width
                                    /\ P[at].height = Metadata(FileOf(R[i])).height

\* a project has been loaded whose second reference failed, between a bare
\* string and an object that were both kept
C9_Witness ==
    /\ pc \notin {"loadConfig", "loadProjects"}
    /\ \E p \in 1..Len(projects) :
            LET R == projects[p].images IN
            /\ Len(R) = 3
            /\ R[1].form = "string" /\ Resolves(R[1])
            /\ ~Resolves(R[2])
            /\ R[3].form = "object" /\ Resolves(R[3])
            /\ Len(projects[p].processedImages) = 2

\* the first token of instruction i of project p names no image of the
\* project's image set
Unresolved(p, i) ==
    LET content == projects[p].pages[i].content
        refs == GoodRefs(projects[p].images)
    IN  content = <<>> \/ \A j \in 1..Len(refs) : FileOf(refs[j]) # content[1]

\* C10: a full page whose first token names a dropped or unknown image
\* emits no draw call, and rendering goes on with the next instruction.
C10_FullPageSkipsUnresolved ==
    \A p \in 1..Len(projects) :
        (Rendered(p) /\ projects[p].hasLayout) =>
            \A i \in 1..Len(projects[p].pages) :
                (projects[p].pages[i].type = "full" /\ Unresolved(p, i)) =>
                    /\ \A k \in DrawCalls : ~(log[k].proj = p /\ log[k].ins = i)
                    /\ \A j \in i..Len(projects[p].pages) :
                            /\ \E k \in Idx :
                                    log[k].proj = p /\ log[k].ins = j /\ log[k].op = "addPage"
                            /\ (projects[p].pages[j].type = "full" /\ ~Unresolved(p, j)) =>
                                    \E k \in ImageCalls : log[k].proj = p /\ log[k].ins = j

\* a full page naming a dropped image has been passed without a draw call
\* and the full page after it has been drawn
C10_Witness ==
    \E p \in 1..Len(projects) :
        /\ Rendered(p) /\ projects[p].hasLayout
        /\ \E i \in 1..(Len(projects[p].pages) - 1) :
                /\ projects[p].pages[i].type = "full"
                /\ \E r \in 1..Len(projects[p].images) :
                        /\ FileOf(projects[p].images[r]) = projects[p].pages[i].content[1]
                        /\ ~Resolves(projects[p].images[r])
                /\ Unresolved(p, i)
                /\ \E k \in ImageCalls : log[k].proj = p /\ log[k].ins = i + 1

\* the directories whose descriptor can be read and parsed and whose image
\* references all name a file
Readable(d) ==
    /\ d.descriptor = "ok"
    /\ \A i \in 1..Len(d.project.images) :
            FileOf(d.project.images[i]) # NoName

\* C11: a directory whose descriptor is missing, unreadable or malformed is
\* skipped as a whole; every other project is loaded and rendered, in the
\* order of the directories; no exception leaves generate(): it ends by
\* completing or by a failure of the output stream.
C11_ProjectFailureNeverAborts ==
    LET good == SelectSeq(dirs, Readable)
    IN  /\ pc \notin {"loadConfig", "loadProjects"} =>
                /\ Len(projects) = Len(good)
                /\ \A p \in 1..Len(projects) :
                        /\ projects[p].images = good[p].project.images
                        /\ projects[p].pages = good[p].project.pages
        /\ pc # "threw"
        /\ pc = "done" =>
                \A p \in 1..Len(projects) :
                    /\ \E k \in Idx : log[k].proj = p
                    /\ \A j, k \in Idx : (j < k /\ log[j].proj >= 1) => log[j].proj <= log[k].proj

\* C12: when config.json is missing or cannot be parsed, loadConfig does
\* not fail and this.config holds the built-in defaults; the document's
\* metadata then carries the title "Portfolio" and the author "Artist".
C12_ConfigFallback ==
    ~cfgFile.ok =>
        /\ pc # "loadConfig" =>
                /\ {"title", "subtitle", "author"} \subseteq DOMAIN config
                /\ config.title = "Portfolio"
                /\ config.subtitle = "Creative Work"
                /\ config.author = "Artist"
        /\ pc \in {"threw", "sinkFailed"} => doc.state = "open"
        /\ doc.state # "none" => (doc.title = "Portfolio" /\ doc.author = "Artist")
        /\ pc = "done" => doc.state = "ended"

\* a portfolio whose config.json cannot be parsed has been generated, with
\* its projects
C12_Witness ==
    /\ ~cfgFile.ok /\ cfgFile.why = "unparsable"
    /\ pc = "done" /\ doc.state = "ended"
    /\ doc.title = "Portfolio" /\ doc.author = "Artist"
    /\ Len(projects) >= 1

\* what config.json gives for a numeric field, as a set: {} when absent
Given(field) ==
    IF cfgFile.ok /\ field \in DOMAIN cfgFile.data THEN {cfgFile.data[field]} ELSE {}
GivenBorderWidth ==
    IF cfgFile.ok /\ "imageBorder" \in DOMAIN cfgFile.data
       /\ "width" \in DOMAIN cfgFile.data.imageBorder
    THEN {cfgFile.data.imageBorder.width} ELSE {}

\* the given value when it is positive, the default otherwise
PositiveOr(given, default) ==
    IF given # {} /\ One(given) > 0 THEN One(given) ELSE default

\* C13: with a config.json, the margin of the page setup and of the layout,
\* the dpi of the target size of every image and the width of every border
\* are the configured value when it is positive, the default (30, 300, 0.5)
\* when it is absent, zero or negative.
C13_NumericDefaults ==
    (cfgFile.ok /\ doc.state # "none") =>
        /\ doc.margin = PositiveOr(Given("margin"), 30)
        /\ \A k \in ImageCalls :
                /\ log[k].target[1] =
                        Round(QDiv(QMul(log[k].rect.w, QInt(PositiveOr(Given("dpi"), 300))), QInt(72)))
                /\ log[k].kind \in {"gallery", "full"} =>
                        log[k].box.w = QInt(pageDim[1] - 2 * PositiveOr(Given("margin"), 30))
                           \/ log[k].n >= 3
        /\ \A k \in Idx :
                log[k].op = "stroke" =>
                    log[k].lineWidth =
                        (IF GivenBorderWidth # {} /\ One(GivenBorderWidth) > 0
                         THEN QInt(One(GivenBorderWidth)) ELSE Q(1, 2))

\* the dpi in effect: the configured one, 300 when config.json gives none or 0
DpiInEffect == IF Given("dpi") # {} /\ One(Given("dpi")) # 0 THEN One(Given("dpi")) ELSE 300

\* the width in pixels of a placement of the given width in points
PixelWidth(points) == Round(QDiv(QMul(points, QInt(DpiInEffect)), QInt(72)))

\* C14: a resize is asked for an image placement if and only if the dpi is
\* below 300 or the image is wider than twice the placement's width in
\* pixels, with quality 95 from 300 dpi on and 85 below; whether it
\* succeeds or fails, the placement is drawn once, at the rectangle with
\* the image's ratio (the original file after a failure), and the images
\* after it on the page and the page break are still issued.
C14_ResizeOrOriginal ==
    \A k \in ImageCalls :
        LET c == log[k]
            m == Metadata(c.what)
            asked == DpiInEffect < 300 \/ m.width > 2 * PixelWidth(c.rect.w)
        IN  /\ c.resize # "none" <=> asked
            /\ asked => c.quality = (IF DpiInEffect >= 300 THEN 95 ELSE 85)
            /\ c.raster = (IF c.resize = "done" THEN "resized" ELSE "original")
            /\ QMul(c.rect.w, QInt(m.height)) = QMul(c.rect.h, QInt(m.width))
            /\ Cardinality({j \in ImageCalls :
                    SamePage(log[j], c) /\ log[j].slot = c.slot /\ log[j].kind = c.kind}) = 1
            /\ c.kind = "gallery" =>
                    \A s \in 0..(c.n - 1) :
                        \E j \in ImageCalls :
                            /\ SamePage(log[j], c) /\ log[j].slot = s
                            /\ s > c.slot => j > k
            /\ (Rendered(c.proj) /\ projects[c.proj].hasLayout) =>
                    \E j \in Idx : j > k /\ log[j].op = "addPage" /\ log[j].ins = c.ins
                                         /\ log[j].proj = c.proj

\* on a gallery page, the resize of an image failed on a file that cannot
\* be decoded, the original was drawn, and the next image was resized
C14_Witness ==
    \E j, k \in ImageCalls :
        /\ j < k /\ SamePage(log[j], log[k]) /\ log[j].kind = "gallery"
        /\ log[j].resize = "failed" /\ log[j].raster = "original"
        /\ log[j].target[1] > 0 /\ log[j].target[2] > 0
        /\ log[k].resize = "done" /\ log[k].quality = 85

\* the text calls of instruction i of project p, in order
TextsOf(p, i) == SelectSeq(log, LAMBDA c : c.proj = p /\ c.ins = i /\ c.op = "text")

\* the fixed increment after a text element
Increment(what) ==
    CASE what = Kw("title") -> 20
      [] what = Kw("medium") -> 10
      [] what = Kw("year") -> 10
      [] what = Kw("credits") -> 15
      [] what = Kw("description") -> 20
      [] what = Kw("link") -> 15

\* the height the render pass consumes: rendered height plus increment
RECURSIVE Consumed(_)
Consumed(texts) ==
    IF texts = <<>> THEN QInt(0)
    ELSE QAdd(QAdd(Head(texts).rect.h, QInt(Increment(Head(texts).what))), Consumed(Tail(texts)))

\* C15: on a two-column info page the height pre-computed to center the
\* text equals the height the render pass consumes (rendered height plus
\* increment of every element): the text block starts as far below the top
\* margin as it ends above the bottom margin.
C15_PlannedEqualsRendered ==
    \A p \in 1..Len(projects) :
        (Rendered(p) /\ projects[p].hasLayout) =>
            \A i \in 1..Len(projects[p].pages) :
                LET texts == TextsOf(p, i)
                IN  (texts # <<>> /\ texts[1].kind = "twoColumn") =>
                        QAdd(QMul(QInt(2), QSub(texts[1].rect.y, QInt(EffMargin))), Consumed(texts))
                            = AreaH

\* C16: when no margin is configured (config.json without margin, or no
\* usable config.json), the page setup and every layout (cover, info,
\* gallery, full page) use the margin 30.
C16_DefaultMargin30 ==
    (doc.state # "none" /\ Given("margin") = {}) =>
        /\ doc.margin = 30
        /\ \A k \in Idx :
                /\ log[k].op = "text" => log[k].rect.x = QInt(30)
                /\ (log[k].op = "image" /\ log[k].kind \in {"gallery", "full"} /\ log[k].slot = 0) =>
                        (log[k].box.x = QInt(30) /\ log[k].box.y = QInt(30))
                /\ (log[k].op = "image" /\ log[k].kind = "singleColumn") =>
                        (log[k].box.x = QInt(30) /\ log[k].box.w = QInt(pageDim[1] - 60))

\* a keyword token the single-column layout draws for the project
DrawnKeyword(project, t) ==
    \/ t \in {Kw("title"), Kw("medium"), Kw("year"), Kw("description")}
    \/ t = Kw("credits") /\ project.credits
    \/ t = Kw("link") /\ project.link

\* C17: the text column of a two-column info page holds, from top to
\* bottom in the order of the content, every keyword token the single-column
\* layout would draw for the project (title, medium, year, credits,
\* description, link), and no image token.
C17_TwoColumnDrawsEveryKeyword ==
    \A p \in 1..Len(projects) :
        (Rendered(p) /\ projects[p].hasLayout) =>
            \A i \in 1..Len(projects[p].pages) :
                LET content == projects[p].pages[i].content
                    texts == TextsOf(p, i)
                    expected == SelectSeq(content, LAMBDA t : DrawnKeyword(projects[p], t))
                IN  (projects[p].pages[i].type = "info" /\ pageDim[1] > pageDim[2]
                        /\ \E t \in 1..Len(content) : ImageToken(content[t])) =>
                        /\ Len(texts) = Len(expected)
                        /\ \A k \in 1..Len(texts) :
                                /\ texts[k].what = expected[k]
                                /\ k > 1 => QLt(texts[k - 1].rect.y, texts[k].rect.y)
                                /\ QLe(QAdd(texts[k].rect.x, texts[k].rect.w),
                                       QInt(pageDim[1] - EffMargin))

\* the calls are in the order of the output: the cover first, the projects
\* in their order, page after page; every image call carries the outcome of
\* its resize; the document is ended when every project has been rendered,
\* and generate() has then completed
InOrder ==
    /\ \A j, k \in Idx :
            j < k => (log[j].proj <= log[k].proj /\ log[j].page <= log[k].page)
    /\ \A k \in Idx : log[k].proj = 0 <=> log[k].kind = "cover"
    /\ log # <<>> => (log[1].proj = 0 /\ log[1].page = 1)
    /\ \A k \in Idx : log[k].proj \in 0..Len(projects)
    /\ \A k \in ImageCalls :
            /\ log[k].resize \in {"none", "done", "failed"}
            /\ log[k].raster = (IF log[k].resize = "done" THEN "resized" ELSE "original")
    /\ doc.state = "none" => log = <<>>
    /\ doc.state = "ended" <=> pc = "done"
    /\ doc.state = "ended" =>
            /\ pi = Len(projects) + 1
            /\ \A p \in 1..Len(projects) :
                    (~projects[p].hasLayout \/ projects[p].pages # <<>>) =>
                        \E k \in Idx : log[k].proj = p

\* C18: the document is opened once and written in order by one writer:
\* cover, then the projects in their order, page after page, each image
\* after its resize; calls are only ever added at the end; the document is
\* ended after the last call of the last project, nothing is issued after
\* that, and generate() completes.
C18_StrictOrder ==
    /\ []InOrder
    /\ [][/\ Len(log') >= Len(log) /\ SubSeq(log', 1, Len(log)) = log
          /\ doc.state = "open" => doc'.state \in {"open", "ended"}
          /\ doc.state = "ended" => (doc' = doc /\ log' = log)]_vars

\* a portfolio of two projects with images has been generated
C18_Witness ==
    /\ pc = "done" /\ doc.state = "ended"
    /\ Len(projects) = 2
    /\ \A p \in 1..2 : \E k \in ImageCalls : log[k].proj = p
    /\ log[Len(log)].proj = 2

\* the content area [margin, pageWidth - margin] x [margin, pageHeight - margin]
ContentArea == Rect(QInt(EffMargin), QInt(EffMargin), AreaW, AreaH)

\* C19: with a positive margin, every box handed to addImageToPage has a
\* positive width and a positive height and lies inside the content area
\* of the page.
C19_BoxesInsideContentArea ==
    (doc.state # "none" /\ EffMargin > 0) =>
        \A k \in ImageCalls :
            /\ QPos(log[k].box.w) /\ QPos(log[k].box.h)
            /\ Inside(log[k].box, ContentArea)

====
